---- MODULE Spec2Model ----
(***************************************************************************)
(* Model of the product router of product-backend                          *)
(* (src/src/routes/products.ts): the five handlers of the Product          *)
(* resource, their parameter parsing, and the Storage Gateway they call.   *)
(*                                                                         *)
(* Texts (query parameters, path parameters, JSON strings) are sequences   *)
(* of one-character strings, so that parseInt, Number and parseFloat are   *)
(* computed character by character as JavaScript computes them.            *)
(* JavaScript numbers are records [k, v]: k = "fin" with the value v, or   *)
(* k = "nan" / "inf" with v = 0.  Page arithmetic uses v as an integer;    *)
(* prices use v in hundredths (29.99 is v = 2999).                         *)
(***************************************************************************)
EXTENDS Integers, Sequences, FiniteSets, TLC

\* Largest id the store hands out: bounds the number of successful creates.
MaxId == 2

----------------------------------------------------------------------------
(* JavaScript values *)

Fin(n) == [k |-> "fin", v |-> n]
NaN == [k |-> "nan", v |-> 0]
Infinity == [k |-> "inf", v |-> 0]
IsFin(x) == x.k = "fin"

Undefined == [t |-> "undef", s |-> <<>>, n |-> NaN]
Str(text) == [t |-> "str", s |-> text, n |-> NaN]
Num(x) == [t |-> "num", s |-> <<>>, n |-> x]

Digits == <<"0", "1", "2", "3", "4", "5", "6", "7", "8", "9">>
IsDigit(c) == \E i \in 1..10 : Digits[i] = c
DigitVal(c) == (CHOOSE i \in 1..10 : Digits[i] = c) - 1

\* String(n) for a small non-negative integer.
RECURSIVE ToText(_)
ToText(n) == IF n < 10 THEN <<Digits[n + 1]>>
             ELSE ToText(n \div 10) \o <<Digits[(n % 10) + 1]>>

\* Length of the longest prefix of text made of digits.
RECURSIVE DigitPrefix(_)
DigitPrefix(text) ==
    IF text = <<>> \/ ~IsDigit(Head(text)) THEN 0
    ELSE 1 + DigitPrefix(Tail(text))

\* Value of a sequence of digits.
RECURSIVE DigitsValue(_)
DigitsValue(ds) ==
    IF ds = <<>> THEN 0
    ELSE 10 * DigitsValue(SubSeq(ds, 1, Len(ds) - 1)) + DigitVal(ds[Len(ds)])

RECURSIVE TrimLeft(_)
TrimLeft(text) ==
    IF text # <<>> /\ Head(text) = " " THEN TrimLeft(Tail(text)) ELSE text

\* Variant of Truthy that tests for a supplied value, as `=== undefined`
\* would.
TruthyIsDefined(val) == val.t # "undef"

\* JavaScript truthiness, the test of `!name`, `!category`, `!price`.
Truthy(val) ==
    CASE val.t = "undef" -> FALSE
      [] val.t = "str" -> val.s # <<>>
      [] val.t = "num" -> ~(val.n.k = "nan" \/ (val.n.k = "fin" /\ val.n.v = 0))

\* parseInt(text): leading blanks, an optional sign, then the longest digit
\* prefix; NaN when there is no digit.
parseInt(text) ==
    LET t    == TrimLeft(text)
        neg  == t # <<>> /\ Head(t) = "-"
        sgn  == t # <<>> /\ Head(t) \in {"-", "+"}
        body == IF sgn THEN Tail(t) ELSE t
        n    == DigitPrefix(body)
        mag  == DigitsValue(SubSeq(body, 1, n))
    IN  IF n = 0 THEN NaN ELSE Fin(IF neg THEN 0 - mag ELSE mag)

\* Number(text) for a path parameter: the whole text must be an integer
\* literal (blank text is 0); anything else is NaN.
Number(text) ==
    LET t    == TrimLeft(text)
        neg  == t # <<>> /\ Head(t) = "-"
        sgn  == t # <<>> /\ Head(t) \in {"-", "+"}
        body == IF sgn THEN Tail(t) ELSE t
        n    == DigitPrefix(body)
    IN  IF t = <<>> THEN Fin(0)
        ELSE IF n = 0 \/ n # Len(body) THEN NaN
        ELSE Fin(IF neg THEN 0 - DigitsValue(body) ELSE DigitsValue(body))

\* parseFloat of a text, in hundredths: digits, then optionally "." and
\* fraction digits; the first two fraction digits are kept.
ParseFloatText(text) ==
    LET t     == TrimLeft(text)
        neg   == t # <<>> /\ Head(t) = "-"
        sgn   == t # <<>> /\ Head(t) \in {"-", "+"}
        body  == IF sgn THEN Tail(t) ELSE t
        n     == DigitPrefix(body)
        rest  == SubSeq(body, n + 1, Len(body))
        dot   == rest # <<>> /\ Head(rest) = "."
        frac  == IF dot THEN Tail(rest) ELSE <<>>
        m     == DigitPrefix(frac)
        f1    == IF m >= 1 THEN DigitVal(frac[1]) ELSE 0
        f2    == IF m >= 2 THEN DigitVal(frac[2]) ELSE 0
        mag   == 100 * DigitsValue(SubSeq(body, 1, n)) + 10 * f1 + f2
    IN  IF n = 0 /\ m = 0 THEN NaN ELSE Fin(IF neg THEN 0 - mag ELSE mag)

\* parseFloat(value): the argument is first converted to a string;
\* undefined becomes "undefined", which has no numeric prefix.
parseFloat(val) ==
    CASE val.t = "undef" -> NaN
      [] val.t = "str" -> ParseFloatText(val.s)
      [] val.t = "num" -> val.n

----------------------------------------------------------------------------
(* Texts the model feeds to the handlers *)

Pizza == <<"P", "i", "z", "z", "a">>
Soda == <<"S", "o", "d", "a">>
Food == <<"F", "o", "o", "d">>
Drink == <<"D", "r", "i", "n", "k">>
Ronier == <<"r", "o", "n", "i", "e", "r">>

\* Path parameters: every id the store can hold, a word, and a text with a
\* numeric prefix only.
IdTexts == {ToText(i) : i \in 1..MaxId} \cup {Ronier, <<"2", "x">>}

\* Query parameters: absent, plain integers, an integer followed by a
\* letter, zero, a negative integer, and a word.
PageTexts == {Undefined, Str(<<"2">>), Str(<<"0">>), Str(<<"x">>)}
PageSizeTexts == {Undefined, Str(<<"1">>), Str(<<"2", "x">>), Str(<<"0">>),
                  Str(<<"-", "1">>)}

CreateNames == {Undefined, Str(<<>>), Str(Pizza)}
CreateCategories == {Undefined, Str(<<>>), Str(Food)}
CreatePrices == {Undefined, Str(<<>>), Num(Fin(0)),
                 Str(<<"2", "9", ".", "9", "9">>), Str(<<"x">>)}

UpdateNames == {Undefined, Str(Soda)}
UpdateCategories == {Undefined, Str(Drink)}
UpdatePrices == {Undefined, Str(<<"5">>)}

\* A request as the router hands it to a handler: req.query, req.params
\* and req.body flattened into one record.
Request(op, page, page_size, id, name, category, price) ==
    [op |-> op, page |-> page, page_size |-> page_size, id |-> id,
     name |-> name, category |-> category, price |-> price]

ListRequests ==
    {Request("list", p, s, <<>>, Undefined, Undefined, Undefined) :
        p \in PageTexts, s \in PageSizeTexts}
GetRequests ==
    {Request("get", Undefined, Undefined, i, Undefined, Undefined, Undefined) :
        i \in IdTexts}
CreateRequests ==
    {Request("create", Undefined, Undefined, <<>>, n, c, p) :
        n \in CreateNames, c \in CreateCategories, p \in CreatePrices}
UpdateRequests ==
    UNION {{Request("update", Undefined, Undefined, i, n, c, p) :
              n \in UpdateNames, c \in UpdateCategories, p \in UpdatePrices} :
           i \in IdTexts}
DeleteRequests ==
    {Request("delete", Undefined, Undefined, i, Undefined, Undefined, Undefined) :
        i \in IdTexts}
NoRequest ==
    Request("none", Undefined, Undefined, <<>>, Undefined, Undefined, Undefined)
Requests ==
    ListRequests \cup GetRequests \cup CreateRequests \cup UpdateRequests
        \cup DeleteRequests

\* The HTTP method and the path below the mount point that a request of
\* each shape is sent with: op names the method and path pair.
HttpMethod(r) ==
    CASE r.op \in {"list", "get"} -> "GET"
      [] r.op = "create" -> "POST"
      [] r.op = "update" -> "PATCH"
      [] r.op = "delete" -> "DELETE"
      [] OTHER -> "NONE"
HttpPath(r) == IF r.op \in {"get", "update", "delete"} THEN <<r.id>> ELSE <<>>

----------------------------------------------------------------------------
(* Routing: the server's mount and the router's routes *)

\* A path is the sequence of its segments; a route pattern is a sequence
\* of literal segments and parameters.
Lit(text) == [param |-> FALSE, text |-> text]
Param == [param |-> TRUE, text |-> <<>>]
Route(method, pattern, h) ==
    [method |-> method, pattern |-> pattern, handler |-> h]

\* Variant of Routes that registers the static route /ronier before the
\* parameter route /:id.
RoutesRonierFirst ==
    << Route("GET", <<>>, "list"),
       Route("GET", <<Lit(Ronier)>>, "ronier"),
       Route("GET", <<Param>>, "get"),
       Route("POST", <<>>, "create"),
       Route("PATCH", <<Param>>, "update"),
       Route("DELETE", <<Param>>, "delete") >>

\* The routes of productRouter in the order they are registered.
Routes ==
    << Route("GET", <<>>, "list"),
       Route("GET", <<Param>>, "get"),
       Route("POST", <<>>, "create"),
       Route("PATCH", <<Param>>, "update"),
       Route("DELETE", <<Param>>, "delete"),
       Route("GET", <<Lit(Ronier)>>, "ronier") >>

Matches(pattern, path) ==
    /\ Len(pattern) = Len(path)
    /\ \A k \in 1..Len(pattern) :
          IF pattern[k].param THEN path[k] # <<>> ELSE pattern[k].text = path[k]

\* The router hands a request to the first registered route whose method
\* and pattern match; every handler answers without calling next().
RouterDispatch(method, path) ==
    LET hits == {k \in 1..Len(Routes) :
                    Routes[k].method = method /\ Matches(Routes[k].pattern, path)}
    IN  IF hits = {} THEN "none"
        ELSE Routes[CHOOSE k \in hits : \A j \in hits : k <= j].handler

\* The server files of the repository.  server_ts is src/server.ts: it calls
\* app.use('/api/products') with no middleware, which throws while the
\* module loads, so that server never listens; part_002 mounts
\* productRouter at the prefix (part_003 does the same and mounts one more
\* router at another prefix).
Entries == {"server_ts", "part_002"}
Listening(e) == e # "server_ts"
MountPrefix == << <<"a", "p", "i">>,
                 <<"p", "r", "o", "d", "u", "c", "t", "s">> >>

AppDispatch(e, method, path) ==
    IF /\ Listening(e)
       /\ Len(path) >= Len(MountPrefix)
       /\ SubSeq(path, 1, Len(MountPrefix)) = MountPrefix
    THEN RouterDispatch(method, SubSeq(path, Len(MountPrefix) + 1, Len(path)))
    ELSE "none"

----------------------------------------------------------------------------
(* Storage Gateway: the Product table behind prisma.product *)

Product(id, name, category, price) ==
    [id |-> id, name |-> name, category |-> category, price |-> price]

Ids(st) == {st[i].id : i \in 1..Len(st)}
Has(st, id) == id \in Ids(st)
Row(st, id) == st[CHOOSE i \in 1..Len(st) : st[i].id = id]

RECURSIVE Without(_, _)
Without(st, id) ==
    IF st = <<>> THEN <<>>
    ELSE IF Head(st).id = id THEN Without(Tail(st), id)
    ELSE <<Head(st)>> \o Without(Tail(st), id)

Min(a, b) == IF a < b THEN a ELSE b
Max(a, b) == IF a > b THEN a ELSE b

\* findMany({skip, take}): the rows at offsets skip .. skip + take - 1 in
\* table order; a negative take counts from the end of the table.  The
\* call is refused when skip or take is not a number or skip is negative.
find_many(st, skip, take, up) ==
    IF ~up \/ ~IsFin(skip) \/ ~IsFin(take) \/ skip.v < 0
    THEN [ok |-> FALSE, rows |-> <<>>]
    ELSE IF take.v >= 0
    THEN [ok |-> TRUE,
          rows |-> SubSeq(st, skip.v + 1, Min(Len(st), skip.v + take.v))]
    ELSE [ok |-> TRUE,
          rows |-> SubSeq(st, Max(1, Len(st) - skip.v + take.v + 1),
                          Len(st) - skip.v)]

count(st, up) == [ok |-> up, n |-> Len(st)]

\* findUnique({where: {id}}): rows is empty for null.
find_unique(st, id, up) ==
    IF ~up \/ ~IsFin(id) THEN [ok |-> FALSE, rows |-> <<>>]
    ELSE IF Has(st, id.v) THEN [ok |-> TRUE, rows |-> <<Row(st, id.v)>>]
    ELSE [ok |-> TRUE, rows |-> <<>>]

\* create({data}): the table assigns the next id of its sequence.  name
\* and category are texts and price is a decimal number: a price that is
\* not a number (NaN) violates the column's constraint and is refused.
create(st, nid, data, up) ==
    IF ~up \/ data.name.t # "str" \/ data.category.t # "str"
       \/ ~IsFin(data.price)
    THEN [ok |-> FALSE, rows |-> <<>>, store |-> st, nextId |-> nid]
    ELSE LET p == Product(nid, data.name.s, data.category.s, data.price)
         IN  [ok |-> TRUE, rows |-> <<p>>, store |-> Append(st, p),
              nextId |-> nid + 1]

\* update({where: {id}, data}): an undefined field is left as it is; the
\* call fails when no row has the id, and a NaN price is refused as in
\* create.
update(st, id, data, up) ==
    IF ~up \/ ~IsFin(id) \/ ~IsFin(data.price)
    THEN [ok |-> FALSE, rows |-> <<>>, store |-> st]
    ELSE IF ~Has(st, id.v) THEN [ok |-> FALSE, rows |-> <<>>, store |-> st]
    ELSE LET old == Row(st, id.v)
             new == Product(old.id,
                            IF data.name.t = "str" THEN data.name.s ELSE old.name,
                            IF data.category.t = "str" THEN data.category.s
                            ELSE old.category,
                            data.price)
         IN  [ok |-> TRUE, rows |-> <<new>>,
              store |-> [i \in 1..Len(st) |->
                            IF st[i].id = id.v THEN new ELSE st[i]]]

\* delete({where: {id}}): fails when no row has the id.
delete(st, id, up) ==
    IF ~up \/ ~IsFin(id) \/ ~Has(st, id.v)
    THEN [ok |-> FALSE, rows |-> <<>>, store |-> st]
    ELSE [ok |-> TRUE, rows |-> <<Row(st, id.v)>>, store |-> Without(st, id.v)]

----------------------------------------------------------------------------
(* Responses *)

\* res.json serialises NaN and Infinity as null.
JsonNumber(x) == IF IsFin(x) THEN x ELSE [k |-> "null", v |-> 0]
ToJson(p) == [p EXCEPT !.price = JsonNumber(@)]

\* res.status(code).json(body); sent is "end" for res.status(code).end().
Json(code, body) == [status |-> code, sent |-> "json", body |-> body]
End(code) == [status |-> code, sent |-> "end", body |-> <<>>]
NoResponse == [status |-> 0, sent |-> "none", body |-> <<>>]
\* Variant of Error whose body carries the status as a second field.
ErrorWithCode(code, msg) == Json(code, [error |-> msg, code |-> code])
Error(code, msg) == Json(code, [error |-> msg])

----------------------------------------------------------------------------
(* productRouter.get('/') *)

JsSub(a, n) == IF IsFin(a) THEN Fin(a.v - n) ELSE NaN
JsMul(a, b) == IF IsFin(a) /\ IsFin(b) THEN Fin(a.v * b.v) ELSE NaN

\* Variant of MathCeilDiv that rounds the quotient down.
MathFloorDiv(n, d) ==
    CASE ~IsFin(d) -> NaN
      [] d.v = 0 -> IF n = 0 THEN NaN ELSE Infinity
      [] d.v > 0 -> Fin(n \div d.v)
      [] OTHER -> Fin(0 - ((n + (0 - d.v) - 1) \div (0 - d.v)))

\* Math.ceil(n / d) for an integer n >= 0 and a number d.
MathCeilDiv(n, d) ==
    CASE ~IsFin(d) -> NaN
      [] d.v = 0 -> IF n = 0 THEN NaN ELSE Infinity
      [] d.v > 0 -> Fin((n + d.v - 1) \div d.v)
      [] OTHER -> Fin(0 - (n \div (0 - d.v)))

\* Variant of ListParams with skip = pageNumber * pageSizeNumber.
ListParamsSkipFromPage(r) ==
    LET page           == IF r.page.t = "undef" THEN <<"1">> ELSE r.page.s
        page_size      == IF r.page_size.t = "undef" THEN <<"1", "0">>
                          ELSE r.page_size.s
        pageNumber     == parseInt(page)
        pageSizeNumber == parseInt(page_size)
    IN  [pageNumber |-> pageNumber, pageSizeNumber |-> pageSizeNumber,
         skip |-> JsMul(pageNumber, pageSizeNumber)]

\* Variant of ListParams whose default page_size is '1'.
ListParamsDefaultSizeOne(r) ==
    LET page           == IF r.page.t = "undef" THEN <<"1">> ELSE r.page.s
        page_size      == IF r.page_size.t = "undef" THEN <<"1">>
                          ELSE r.page_size.s
        pageNumber     == parseInt(page)
        pageSizeNumber == parseInt(page_size)
    IN  [pageNumber |-> pageNumber, pageSizeNumber |-> pageSizeNumber,
         skip |-> JsMul(JsSub(pageNumber, 1), pageSizeNumber)]

\* The destructuring defaults and the two parseInt calls.
ListParams(r) ==
    LET page           == IF r.page.t = "undef" THEN <<"1">> ELSE r.page.s
        page_size      == IF r.page_size.t = "undef" THEN <<"1", "0">>
                          ELSE r.page_size.s
        pageNumber     == parseInt(page)
        pageSizeNumber == parseInt(page_size)
    IN  [pageNumber |-> pageNumber, pageSizeNumber |-> pageSizeNumber,
         skip |-> JsMul(JsSub(pageNumber, 1), pageSizeNumber)]

ListEnvelope(r, rows, n) ==
    LET q == ListParams(r)
    IN  Json(200, [count |-> JsonNumber(Fin(n)),
                   total_pages |-> JsonNumber(MathCeilDiv(n, q.pageSizeNumber)),
                   page_size |-> JsonNumber(q.pageSizeNumber),
                   page |-> JsonNumber(q.pageNumber),
                   results |-> [i \in 1..Len(rows) |-> ToJson(rows[i])]])

ListFailure == Error(500, "Nao foi possivel listar os produtos")

----------------------------------------------------------------------------
(* productRouter.get('/:id') *)

\* Variant of GetHandler that answers an unknown id with status 400.
GetHandlerUnknownIs400(st, r, up) ==
    LET found == find_unique(st, Number(r.id), up)
    IN  IF ~found.ok THEN Error(500, "Erro ao buscar o produto")
        ELSE IF found.rows # <<>> THEN Json(201, ToJson(found.rows[1]))
        ELSE Error(400, "Produto nao encontrado")

GetHandler(st, r, up) ==
    LET found == find_unique(st, Number(r.id), up)
    IN  IF ~found.ok THEN Error(500, "Erro ao buscar o produto")
        ELSE IF found.rows # <<>> THEN Json(201, ToJson(found.rows[1]))
        ELSE Error(404, "Produto nao encontrado")

----------------------------------------------------------------------------
(* productRouter.post('/') *)

\* Variant of CreateCheck that tests category before name.
CreateCheckCategoryFirst(r) ==
    IF ~Truthy(r.category) THEN Error(400, "O campo [category] e obrigatorio")
    ELSE IF ~Truthy(r.name) THEN Error(400, "O campo [name] e obrigatorio")
    ELSE IF ~Truthy(r.price) THEN Error(400, "O campo [price] e obrigatorio")
    ELSE NoResponse

\* The three presence checks; NoResponse when the body passes them.
CreateCheck(r) ==
    IF ~Truthy(r.name) THEN Error(400, "O campo [name] e obrigatorio")
    ELSE IF ~Truthy(r.category)
    THEN Error(400, "O campo [category] e obrigatorio")
    ELSE IF ~Truthy(r.price) THEN Error(400, "O campo [price] e obrigatorio")
    ELSE NoResponse

\* Variant of CreateData that converts the price with parseInt.
CreateDataParseInt(r) ==
    [name |-> r.name, category |-> r.category,
     price |-> IF r.price.t = "str"
               THEN JsMul(parseInt(r.price.s), Fin(100))
               ELSE parseFloat(r.price)]

CreateData(r) ==
    [name |-> r.name, category |-> r.category, price |-> parseFloat(r.price)]

\* Variant of CreateHandler that passes an id of its own with the data, one
\* more than the number of rows, instead of leaving the id to the table's
\* sequence (which an explicit id does not advance).
CreateHandlerCountsIds(st, nid, r, up) ==
    IF CreateCheck(r) # NoResponse
    THEN [resp |-> CreateCheck(r), store |-> st, nextId |-> nid, calls |-> 0]
    ELSE LET made == create(st, Len(st) + 1, CreateData(r), up)
         IN  [resp |-> IF made.ok THEN Json(200, ToJson(made.rows[1]))
                       ELSE Error(400, "Nao foi possivel criar o produto"),
              store |-> made.store, nextId |-> nid, calls |-> 1]

\* Variant of CreateHandler that makes the store call first and looks at
\* the fields afterwards.
CreateHandlerChecksAfter(st, nid, r, up) ==
    LET made == create(st, nid, CreateData(r), up)
    IN  [resp |-> IF CreateCheck(r) # NoResponse THEN CreateCheck(r)
                  ELSE IF made.ok THEN Json(200, ToJson(made.rows[1]))
                  ELSE Error(400, "Nao foi possivel criar o produto"),
         store |-> made.store, nextId |-> made.nextId, calls |-> 1]

\* Variant of CreateHandler without the catch block: a failure of the store
\* call leaves the handler and no response is sent.
CreateHandlerNoCatch(st, nid, r, up) ==
    IF CreateCheck(r) # NoResponse
    THEN [resp |-> CreateCheck(r), store |-> st, nextId |-> nid, calls |-> 0]
    ELSE LET made == create(st, nid, CreateData(r), up)
         IN  [resp |-> IF made.ok THEN Json(200, ToJson(made.rows[1]))
                       ELSE NoResponse,
              store |-> made.store, nextId |-> made.nextId, calls |-> 1]

CreateHandler(st, nid, r, up) ==
    IF CreateCheck(r) # NoResponse
    THEN [resp |-> CreateCheck(r), store |-> st, nextId |-> nid, calls |-> 0]
    ELSE LET made == create(st, nid, CreateData(r), up)
         IN  [resp |-> IF made.ok THEN Json(200, ToJson(made.rows[1]))
                       ELSE Error(400, "Nao foi possivel criar o produto"),
              store |-> made.store, nextId |-> made.nextId, calls |-> 1]

----------------------------------------------------------------------------
(* productRouter.patch('/:id') *)

UpdateData(r) ==
    [name |-> r.name, category |-> r.category, price |-> parseFloat(r.price)]

\* Variant of UpdateHandler that tells an unknown id apart from the other
\* failures of the store call and answers it 404.
UpdateHandlerUnknownIs404(st, r, up) ==
    LET done == update(st, Number(r.id), UpdateData(r), up)
    IN  [resp |-> IF ~done.ok
                  THEN IF IsFin(Number(r.id)) /\ ~Has(st, Number(r.id).v)
                       THEN Error(404, "Produto nao encontrado!")
                       ELSE Error(400, "Nao foi possivel atualizar o produto")
                  ELSE IF done.rows # <<>> THEN Json(200, ToJson(done.rows[1]))
                  ELSE Error(400, "Produto nao encontrado!"),
         store |-> done.store]

UpdateHandler(st, r, up) ==
    LET done == update(st, Number(r.id), UpdateData(r), up)
    IN  [resp |-> IF ~done.ok
                  THEN Error(400, "Nao foi possivel atualizar o produto")
                  ELSE IF done.rows # <<>> THEN Json(200, ToJson(done.rows[1]))
                  ELSE Error(400, "Produto nao encontrado!"),
         store |-> done.store]

----------------------------------------------------------------------------
(* productRouter.delete('/:id') *)

\* Variant of DeleteHandler whose store call has no `where`: every row goes.
DeleteHandlerAllRows(st, r, up) ==
    LET gone == delete(st, Number(r.id), up)
    IN  [resp |-> IF ~gone.ok
                  THEN Error(400, "Nao foi possivel deletar o produto")
                  ELSE IF gone.rows # <<>> THEN End(204)
                  ELSE Error(400, "Produto nao encontrado!"),
         store |-> IF gone.ok THEN <<>> ELSE st]

\* Variant of DeleteHandler that answers 204 and leaves the row in place.
DeleteHandlerKeepsRow(st, r, up) ==
    LET gone == delete(st, Number(r.id), up)
    IN  [resp |-> IF ~gone.ok
                  THEN Error(400, "Nao foi possivel deletar o produto")
                  ELSE IF gone.rows # <<>> THEN End(204)
                  ELSE Error(400, "Produto nao encontrado!"),
         store |-> st]

DeleteHandler(st, r, up) ==
    LET gone == delete(st, Number(r.id), up)
    IN  [resp |-> IF ~gone.ok
                  THEN Error(400, "Nao foi possivel deletar o produto")
                  ELSE IF gone.rows # <<>> THEN End(204)
                  ELSE Error(400, "Produto nao encontrado!"),
         store |-> gone.store]

----------------------------------------------------------------------------
(* State *)

VARIABLES
    store,     \* the Product table, in table order
    nextId,    \* the id the table assigns to the next created row
    req,       \* the request most recently taken up by a handler
    pc,        \* "idle", "count" (List between its two store calls), "done"
    products,  \* List's local `products`, the result of findMany
    resp,      \* the response to req, NoResponse while it is being handled
    calls,     \* number of store calls made for req
    storeUp,   \* whether the store served the latest store call for req
    raced,     \* whether another request wrote since req's findMany
    deleted,   \* ids whose Delete was answered 204
    entry,     \* the server file the process was started from
    handler    \* the handler that took up req

vars == <<store, nextId, req, pc, products, resp, calls, storeUp, raced,
          deleted, entry, handler>>

\* The requests that the server started from file e hands to handler h,
\* tabulated for every server file and handler.
RoutedBy(e, h) ==
    {r \in Requests :
        AppDispatch(e, HttpMethod(r), MountPrefix \o HttpPath(r)) = h}
RoutesOf(e) ==
    [list |-> RoutedBy(e, "list"), get |-> RoutedBy(e, "get"),
     create |-> RoutedBy(e, "create"), update |-> RoutedBy(e, "update"),
     delete |-> RoutedBy(e, "delete"), ronier |-> RoutedBy(e, "ronier")]
Dispatch ==
    [server_ts |-> RoutesOf("server_ts"), part_002 |-> RoutesOf("part_002")]
Routed(h) == Dispatch[entry][h]

Init ==
    /\ store = <<>>
    /\ nextId = 1
    /\ req = NoRequest
    /\ pc = "idle"
    /\ products = <<>>
    /\ resp = NoResponse
    /\ calls = 0
    /\ storeUp = TRUE
    /\ raced = FALSE
    /\ deleted = {}
    /\ entry \in Entries
    /\ handler = "none"

\* GET /: the handler up to the answer of findMany.
ListFindMany(r, up) ==
    LET q    == ListParams(r)
        rows == find_many(store, q.skip, q.pageSizeNumber, up)
    IN  /\ pc # "count"
        /\ req' = r
        /\ handler' = "list"
        /\ calls' = 1
        /\ storeUp' = up
        /\ raced' = FALSE
        /\ products' = rows.rows
        /\ pc' = IF rows.ok THEN "count" ELSE "done"
        /\ resp' = IF rows.ok THEN NoResponse ELSE ListFailure
        /\ UNCHANGED <<store, nextId, deleted, entry>>

\* GET /: from the answer of findMany to the response.
\* Variant of ListCount that calls count again when the call fails.
ListCountRetries(up) ==
    LET n == count(store, up)
    IN  /\ pc = "count"
        /\ calls' = calls + 1
        /\ storeUp' = up
        /\ pc' = IF n.ok THEN "done" ELSE "count"
        /\ resp' = IF n.ok THEN ListEnvelope(req, products, n.n) ELSE NoResponse
        /\ UNCHANGED <<store, nextId, req, products, raced, deleted, entry,
                       handler>>

\* Variant of ListCount whose catch block logs the failure and sends
\* nothing.
ListCountSilentOnFailure(up) ==
    LET n == count(store, up)
    IN  /\ pc = "count"
        /\ calls' = calls + 1
        /\ storeUp' = up
        /\ pc' = "done"
        /\ resp' = IF n.ok THEN ListEnvelope(req, products, n.n) ELSE NoResponse
        /\ UNCHANGED <<store, nextId, req, products, raced, deleted, entry,
                       handler>>

ListCount(up) ==
    LET n == count(store, up)
    IN  /\ pc = "count"
        /\ calls' = calls + 1
        /\ storeUp' = up
        /\ pc' = "done"
        /\ resp' = IF n.ok THEN ListEnvelope(req, products, n.n) ELSE ListFailure
        /\ UNCHANGED <<store, nextId, req, products, raced, deleted, entry,
                       handler>>

GetById(r, up) ==
    /\ pc # "count"
    /\ req' = r
    /\ handler' = "get"
    /\ calls' = 1
    /\ storeUp' = up
    /\ raced' = FALSE
    /\ products' = <<>>
    /\ pc' = "done"
    /\ resp' = GetHandler(store, r, up)
    /\ UNCHANGED <<store, nextId, deleted, entry>>

Create(r, up) ==
    LET h == CreateHandler(store, nextId, r, up)
    IN  /\ pc # "count"
        /\ nextId <= MaxId
        /\ req' = r
        /\ handler' = "create"
        /\ calls' = h.calls
        /\ storeUp' = up
        /\ raced' = FALSE
        /\ products' = <<>>
        /\ pc' = "done"
        /\ resp' = h.resp
        /\ store' = h.store
        /\ nextId' = h.nextId
        /\ UNCHANGED <<deleted, entry>>

Update(r, up) ==
    LET h == UpdateHandler(store, r, up)
    IN  /\ pc # "count"
        /\ req' = r
        /\ handler' = "update"
        /\ calls' = 1
        /\ storeUp' = up
        /\ raced' = FALSE
        /\ products' = <<>>
        /\ pc' = "done"
        /\ resp' = h.resp
        /\ store' = h.store
        /\ UNCHANGED <<nextId, deleted, entry>>

Delete(r, up) ==
    LET h == DeleteHandler(store, r, up)
    IN  /\ pc # "count"
        /\ req' = r
        /\ handler' = "delete"
        /\ calls' = 1
        /\ storeUp' = up
        /\ raced' = FALSE
        /\ products' = <<>>
        /\ pc' = "done"
        /\ resp' = h.resp
        /\ store' = h.store
        /\ deleted' = IF h.resp.status = 204
                      THEN deleted \cup {Number(r.id).v} ELSE deleted
        /\ UNCHANGED <<nextId, entry>>

\* Another request's Create, Update or Delete reaching the store while the
\* List request req waits between findMany and count.  Its response goes to
\* its own client and is not recorded.  The model follows one such write
\* per List request.
RaceCreate(r) ==
    LET h == CreateHandler(store, nextId, r, TRUE)
    IN  /\ pc = "count" /\ ~raced
        /\ nextId <= MaxId
        /\ h.store # store
        /\ store' = h.store
        /\ nextId' = h.nextId
        /\ raced' = TRUE
        /\ UNCHANGED <<req, pc, products, resp, calls, storeUp, deleted, entry,
                       handler>>

RaceUpdate(r) ==
    LET h == UpdateHandler(store, r, TRUE)
    IN  /\ pc = "count" /\ ~raced
        /\ h.store # store
        /\ store' = h.store
        /\ raced' = TRUE
        /\ UNCHANGED <<nextId, req, pc, products, resp, calls, storeUp, deleted,
                       entry, handler>>

RaceDelete(r) ==
    LET h == DeleteHandler(store, r, TRUE)
    IN  /\ pc = "count" /\ ~raced
        /\ h.store # store
        /\ store' = h.store
        /\ deleted' = IF h.resp.status = 204
                      THEN deleted \cup {Number(r.id).v} ELSE deleted
        /\ raced' = TRUE
        /\ UNCHANGED <<nextId, req, pc, products, resp, calls, storeUp, entry,
                       handler>>

\* Whether the store is reachable is open wherever the handler makes a
\* store call; a Create that fails a presence check makes none.
UpChoices(r) == IF r.op = "create" /\ CreateCheck(r) # NoResponse
                THEN {TRUE} ELSE BOOLEAN

Next ==
    \/ \E r \in Routed("list"), up \in BOOLEAN : ListFindMany(r, up)
    \/ \E up \in BOOLEAN : ListCount(up)
    \/ \E r \in Routed("get"), up \in BOOLEAN : GetById(r, up)
    \/ \E r \in Routed("create") : \E up \in UpChoices(r) : Create(r, up)
    \/ \E r \in Routed("update"), up \in BOOLEAN : Update(r, up)
    \/ \E r \in Routed("delete"), up \in BOOLEAN : Delete(r, up)
    \/ \E r \in Routed("create") : RaceCreate(r)
    \/ \E r \in Routed("update") : RaceUpdate(r)
    \/ \E r \in Routed("delete") : RaceDelete(r)

Spec == Init /\ [][Next]_vars

\* The program under the assumption that a store call that has been made
\* eventually returns or fails: the promise of count, the one call a
\* handler waits for across steps, is eventually settled.
LiveSpec == Spec /\ WF_vars(\E up \in BOOLEAN : ListCount(up))

----------------------------------------------------------------------------
(* Properties *)

\* The request req has been answered by the handler of operation op.
Answered(op) == pc = "done" /\ req.op = op

\* pageNumber >= 1 and pageSizeNumber >= 1 after parsing.
ValidPaging(r) ==
    LET q == ListParams(r)
    IN  /\ IsFin(q.pageNumber) /\ q.pageNumber.v >= 1
        /\ IsFin(q.pageSizeNumber) /\ q.pageSizeNumber.v >= 1

\* ceil(n / d) for n >= 0 and d >= 1: the least k with k * d >= n.
Ceil(n, d) == CHOOSE k \in 0..n : k * d >= n /\ (k = 0 \/ (k - 1) * d < n)

\* The rows of st at offsets skip .. skip + take - 1, fewer when st ends.
Slice(st, skip, take) ==
    [i \in 1..Max(0, Min(take, Len(st) - skip)) |-> st[skip + i]]

\* C1: a List request with page >= 1 and page_size >= 1 that the store
\* serves is answered 200 with count = the number of rows in the store,
\* total_pages = ceil(count / page_size), and at most page_size results.
C1_TotalPagesIsCeil ==
    (Answered("list") /\ ValidPaging(req) /\ storeUp) =>
        LET size == ListParams(req).pageSizeNumber.v
        IN  /\ resp.status = 200 /\ resp.sent = "json"
            /\ resp.body.count = Fin(Len(store))
            /\ resp.body.total_pages = Fin(Ceil(Len(store), size))
            /\ Len(resp.body.results) <= size

\* C1 witness: one row, page_size "2x" (2): total_pages is 1 where the
\* rounded-down quotient is 0.
C1_Witness ==
    /\ Answered("list") /\ ValidPaging(req) /\ storeUp
    /\ Len(store) = 1
    /\ ListParams(req).pageSizeNumber = Fin(2)
    /\ resp.body.total_pages = Fin(1)
    /\ Len(resp.body.results) = 1

\* The step in which a List request gets the answer of findMany.
FindManyStep == pc # "count" /\ req'.op = "list" /\ calls' = 1
\* The step in which a request of operation op is answered.
AnswerStep(op) == req'.op = op /\ pc' = "done"

\* C2: for page >= 1 and page_size >= 1, findMany returns exactly the rows
\* at offsets skip .. skip + page_size - 1 of the table as it is then, with
\* skip = (page - 1) * page_size, and the envelope carries those rows and
\* the parsed page and page_size.
C2_ResultsAreThePage ==
    [][ /\ (FindManyStep /\ ValidPaging(req') /\ storeUp') =>
              LET q == ListParams(req')
              IN  /\ pc' = "count"
                  /\ products' = Slice(store,
                                       (q.pageNumber.v - 1) * q.pageSizeNumber.v,
                                       q.pageSizeNumber.v)
        /\ (pc = "count" /\ AnswerStep("list") /\ ValidPaging(req) /\ storeUp') =>
              /\ resp'.status = 200
              /\ resp'.body.results = [i \in 1..Len(products) |-> ToJson(products[i])]
              /\ resp'.body.page = ListParams(req).pageNumber
              /\ resp'.body.page_size = ListParams(req).pageSizeNumber
      ]_vars

\* C2 witness: page 2 of size 1 over two rows is the second row alone.
C2_Witness ==
    /\ Answered("list") /\ resp.status = 200 /\ ~raced
    /\ Len(store) = 2
    /\ resp.body.page = Fin(2) /\ resp.body.page_size = Fin(1)
    /\ resp.body.results = <<ToJson(store[2])>>

\* C3: a List request without page and page_size is answered as page 1
\* with page_size 10; on an empty store the envelope is count 0,
\* total_pages 0, page_size 10, page 1 and no results.
C3_DefaultPaging ==
    (Answered("list") /\ req.page = Undefined /\ req.page_size = Undefined
        /\ storeUp) =>
        /\ resp.status = 200
        /\ resp.body.page = Fin(1)
        /\ resp.body.page_size = Fin(10)
        /\ ~raced =>
              /\ resp.body.count = Fin(Len(store))
              /\ resp.body.results = [i \in 1..Min(10, Len(store)) |-> ToJson(store[i])]
        /\ (~raced /\ store = <<>>) =>
              resp.body = [count |-> Fin(0), total_pages |-> Fin(0),
                           page_size |-> Fin(10), page |-> Fin(1),
                           results |-> <<>>]

C3_Witness ==
    /\ Answered("list") /\ req.page = Undefined /\ req.page_size = Undefined
    /\ storeUp /\ store = <<>> /\ nextId > 1
    /\ resp.body.total_pages = Fin(0) /\ resp.body.results = <<>>

NameError == Error(400, "O campo [name] e obrigatorio")
CategoryError == Error(400, "O campo [category] e obrigatorio")
PriceError == Error(400, "O campo [price] e obrigatorio")

\* C4: Create answers 400 with the error of the first field, in the order
\* name, category, price, that fails the presence test; a body failing
\* several is answered with the error of the earliest.
C4_FirstMissingField ==
    Answered("create") =>
        /\ ~Truthy(req.name) => resp = NameError
        /\ (Truthy(req.name) /\ ~Truthy(req.category)) => resp = CategoryError
        /\ (Truthy(req.name) /\ Truthy(req.category) /\ ~Truthy(req.price)) =>
              resp = PriceError
        /\ (Truthy(req.name) /\ Truthy(req.category) /\ Truthy(req.price)) =>
              resp \notin {NameError, CategoryError, PriceError}

\* C4 witness: name present, category and price both absent.
C4_Witness ==
    /\ Answered("create") /\ Truthy(req.name)
    /\ req.category = Undefined /\ req.price = Undefined
    /\ resp = CategoryError

\* C5: a Create with name, category and price present that the store
\* accepts appends exactly one row and returns it; the row's id is in no
\* other row and was never handed out before, its name and category are
\* the submitted texts and its price the submitted price as a number
\* ("29.99" is 29.99).
C5_CreateAddsOneRecord ==
    [][ (AnswerStep("create") /\ resp'.status = 200) =>
          /\ Len(store') = Len(store) + 1
          /\ SubSeq(store', 1, Len(store)) = store
          /\ LET p == store'[Len(store')]
             IN  /\ resp'.sent = "json" /\ resp'.body = ToJson(p)
                 /\ p.id \notin Ids(store) \cup deleted
                 /\ Truthy(req'.name) /\ Truthy(req'.category) /\ Truthy(req'.price)
                 /\ p.name = req'.name.s
                 /\ p.category = req'.category.s
                 /\ p.price = parseFloat(req'.price)
                 /\ req'.price = Str(<<"2", "9", ".", "9", "9">>) => p.price = Fin(2999)
      ]_vars

\* C5 witness: a second row created next to an existing one.
C5_Witness ==
    /\ Answered("create") /\ resp.status = 200
    /\ Len(store) = 2
    /\ resp.body.id = store[2].id /\ store[1].id # store[2].id
    /\ resp.body.price = Fin(2999)

\* The path parameter of r converted with Number is the integer id i.
Addresses(r, i) == Number(r.id) = Fin(i)
IsError(rs) == rs.sent = "json" /\ DOMAIN rs.body = {"error"}

\* C6: Get-by-id of an id that is in the store is answered with status 200
\* and the stored record of that id.
C6_GetFoundIs200 ==
    \A i \in Ids(store) :
        (Answered("get") /\ Addresses(req, i) /\ storeUp) =>
            /\ resp.status = 200
            /\ resp.sent = "json" /\ resp.body = ToJson(Row(store, i))

\* C7: Get-by-id of an integer id that is not in the store is answered 404
\* with an error body, and no Get-by-id, found or not, changes the store.
C7_GetUnknownIs404 ==
    [][ AnswerStep("get") =>
          /\ store' = store /\ nextId' = nextId
          /\ (IsFin(Number(req'.id)) /\ ~Has(store, Number(req'.id).v)
                  /\ storeUp') =>
                resp'.status = 404 /\ IsError(resp')
      ]_vars

\* C7 witness: a Get-by-id of an id with no row, beside another row.
C7_Witness ==
    /\ Answered("get") /\ storeUp /\ store # <<>>
    /\ IsFin(Number(req.id)) /\ ~Has(store, Number(req.id).v)
    /\ resp.status = 404

\* C8: Delete of an id that is in the store is answered 204 with an empty
\* body, removes the row of that id and no other, and leaves every other
\* row as it was.
C8_DeleteRemovesOne ==
    [][ \A i \in Ids(store) :
          (AnswerStep("delete") /\ Addresses(req', i) /\ storeUp') =>
              /\ resp' = End(204)
              /\ Ids(store') = Ids(store) \ {i}
              /\ Len(store') = Len(store) - 1
              /\ \A j \in Ids(store') : Row(store', j) = Row(store, j)
              /\ nextId' = nextId
      ]_vars

\* C8 witness: a Delete answered 204 that left another row behind.
C8_Witness ==
    /\ Answered("delete") /\ resp = End(204)
    /\ store # <<>>
    /\ \E i \in deleted : Addresses(req, i) /\ ~Has(store, i)

\* C9: once a Delete of an id has been answered 204, the id stays without
\* a row for ever (no Create brings it back), and every later Get-by-id,
\* Update or Delete of it leaves the store alone and is answered with an
\* error: 404 for Get, the generic 400 for Update and for Delete.
C9_DeletedStaysGone ==
    [][ /\ \A i \in deleted : i \in deleted' /\ ~Has(store', i)
        /\ \A i \in deleted :
              /\ (AnswerStep("get") /\ Addresses(req', i)) =>
                    /\ store' = store /\ IsError(resp')
                    /\ storeUp' => resp'.status = 404
              /\ (AnswerStep("update") /\ Addresses(req', i)) =>
                    /\ store' = store
                    /\ resp' = Error(400, "Nao foi possivel atualizar o produto")
              /\ (AnswerStep("delete") /\ Addresses(req', i)) =>
                    /\ store' = store
                    /\ resp' = Error(400, "Nao foi possivel deletar o produto")
      ]_vars

\* C9 witness: id i was deleted, a row with a later id exists, and a
\* Get-by-id of i has just been answered 404.
C9_Witness ==
    \E i \in deleted :
        /\ \E j \in Ids(store) : j > i
        /\ Answered("get") /\ Addresses(req, i) /\ resp.status = 404

Supplied(val) == val.t # "undef"

\* C10: an Update of an existing id whose body supplies some of name,
\* category and price succeeds; the supplied fields take the new values
\* (price as a number) and the others keep their previous values.
C10_UpdateIsPartial ==
    [][ \A i \in Ids(store) :
          (/\ AnswerStep("update") /\ Addresses(req', i) /\ storeUp'
           /\ (Supplied(req'.name) \/ Supplied(req'.category)
                  \/ Supplied(req'.price))) =>
              /\ resp'.status = 200
              /\ Has(store', i)
              /\ LET old == Row(store, i)
                     new == Row(store', i)
                 IN  /\ new.name = IF Supplied(req'.name) THEN req'.name.s
                                   ELSE old.name
                     /\ new.category = IF Supplied(req'.category)
                                       THEN req'.category.s ELSE old.category
                     /\ new.price = IF Supplied(req'.price)
                                    THEN parseFloat(req'.price) ELSE old.price
      ]_vars

----------------------------------------------------------------------------
(* Failures *)

UpdateFailure == Error(400, "Nao foi possivel atualizar o produto")
DeleteFailure == Error(400, "Nao foi possivel deletar o produto")
CreateFailure == Error(400, "Nao foi possivel criar o produto")

\* The id of request r names no row of table st.
Unknown(st, r) == ~IsFin(Number(r.id)) \/ ~Has(st, Number(r.id).v)

\* C11: an Update or a Delete addressed to an id that is not in the store
\* is answered 400 with the generic update or deletion failure message,
\* and the store is left as it was: no record is created, modified or
\* removed.
C11_UnknownIdWriteFails ==
    [][ /\ (AnswerStep("update") /\ Unknown(store, req')) =>
              (resp' = UpdateFailure /\ store' = store /\ nextId' = nextId)
        /\ (AnswerStep("delete") /\ Unknown(store, req')) =>
              (resp' = DeleteFailure /\ store' = store /\ nextId' = nextId)
      ]_vars

\* C11 witness: an Update with a price, addressed to an integer id that
\* the non-empty store does not hold, was refused by the reachable store
\* and answered with the generic update failure.
C11_Witness ==
    /\ Answered("update") /\ storeUp /\ Supplied(req.price)
    /\ store # <<>>
    /\ IsFin(Number(req.id)) /\ ~Has(store, Number(req.id).v)
    /\ resp = UpdateFailure

\* C12: a failure of a store call is caught by the handler that made the
\* call and answered at once: 500 with the list message on the List path
\* (findMany or count failing), 400 with the operation's message on
\* Create, Update and Delete (and 500 with its own message on Get-by-id).
\* The message is the same whatever made the call fail (store unreachable,
\* refused arguments, unknown id).
C12_StoreFailureIsCaught ==
    [][ /\ (/\ FindManyStep
            /\ ~find_many(store, ListParams(req').skip,
                          ListParams(req').pageSizeNumber, storeUp').ok) =>
              (pc' = "done" /\ resp' = ListFailure)
        /\ (pc = "count" /\ pc' = "done" /\ ~count(store, storeUp').ok) =>
              resp' = ListFailure
        /\ (/\ AnswerStep("create") /\ calls' = 1
            /\ ~create(store, nextId, CreateData(req'), storeUp').ok) =>
              (resp' = CreateFailure /\ store' = store)
        /\ (/\ AnswerStep("update")
            /\ ~update(store, Number(req'.id), UpdateData(req'), storeUp').ok) =>
              (resp' = UpdateFailure /\ store' = store)
        /\ (/\ AnswerStep("delete")
            /\ ~delete(store, Number(req'.id), storeUp').ok) =>
              (resp' = DeleteFailure /\ store' = store)
        /\ (/\ AnswerStep("get")
            /\ ~find_unique(store, Number(req'.id), storeUp').ok) =>
              resp' = Error(500, "Erro ao buscar o produto")
      ]_vars

\* C12 witness: a List whose findMany was served and whose count failed
\* has been answered 500 with the list message.
C12_Witness ==
    /\ Answered("list") /\ calls = 2 /\ ~storeUp
    /\ resp = ListFailure

\* C13: every response with a failure status (400, 404 or 500) carries a
\* JSON body that is an object with exactly one field, error, holding a
\* text message: no failure response has an empty body or another field.
C13_FailureBodyIsError ==
    resp.status \in {400, 404, 500} =>
        /\ resp.sent = "json"
        /\ DOMAIN resp.body = {"error"}
        /\ resp.body.error \in STRING
        /\ resp.body.error # ""

\* C13 witness: a Get-by-id whose store call failed has been answered 500
\* with an error body.
C13_Witness ==
    /\ Answered("get") /\ resp.status = 500
    /\ IsError(resp)

\* The ids of table st in table order.
IdSeq(st) == [i \in 1..Len(st) |-> st[i].id]

\* C14: in every reachable state no two records of the store share an id,
\* and no step changes the id of a record: an Update leaves every row's
\* id as it was, a Create adds one row with an id no row has and leaves
\* the others, a Delete removes one row and leaves the others.
C14_IdUniqueAndStable ==
    /\ [](\A i, j \in 1..Len(store) : store[i].id = store[j].id => i = j)
    /\ [][ /\ AnswerStep("update") => IdSeq(store') = IdSeq(store)
           /\ \/ IdSeq(store') = IdSeq(store)
              \/ /\ Len(store') = Len(store) + 1
                 /\ SubSeq(IdSeq(store'), 1, Len(store)) = IdSeq(store)
                 /\ ~Has(store, store'[Len(store')].id)
              \/ \E i \in Ids(store) : IdSeq(store') = IdSeq(Without(store, i))
       ]_vars

\* C14 witness: the second of two records has just been updated with new
\* values and both records are in the store under their ids, 1 and 2.
C14_Witness ==
    /\ Answered("update") /\ resp.status = 200 /\ Addresses(req, 2)
    /\ IdSeq(store) = <<1, 2>>
    /\ store[2].name = Soda

\* C15: a List request whose page_size is 0 or negative is a caller
\* error: it is not answered with a success pagination envelope.
C15_NonPositivePageSizeRejected ==
    (/\ Answered("list")
     /\ IsFin(ListParams(req).pageSizeNumber)
     /\ ListParams(req).pageSizeNumber.v <= 0) =>
        resp.status # 200

----------------------------------------------------------------------------
(* Routing *)

\* The operation that each method and path below /api/products stands for.
Operation(method, path) ==
    CASE method = "GET" /\ path = <<>> -> "list"
      [] method = "GET" /\ Len(path) = 1 -> "get"
      [] method = "POST" /\ path = <<>> -> "create"
      [] method = "PATCH" /\ Len(path) = 1 -> "update"
      [] method = "DELETE" /\ Len(path) = 1 -> "delete"
      [] OTHER -> "none"

\* C16: the server mounts the Product handler under /api/products, so
\* that every request GET /, GET /:id, POST /, PATCH /:id or DELETE /:id
\* below the prefix is handed to List, Get-by-id, Create, Update or Delete
\* respectively, and the request being handled is in the hands of exactly
\* that operation.
C16_MountedAndDispatched ==
    /\ \A r \in Requests :
          AppDispatch(entry, HttpMethod(r), MountPrefix \o HttpPath(r))
              = Operation(HttpMethod(r), HttpPath(r))
    /\ pc # "idle" => handler = Operation(HttpMethod(req), HttpPath(req))

\* Where the router is mounted (part_002), the five method and path pairs
\* do reach their operations.
DispatchedWhereMounted == Listening(entry) => C16_MountedAndDispatched

----------------------------------------------------------------------------
(* Store calls *)

\* C17: a Create rejected for a missing name, category or price makes no
\* store call and leaves the store as it was; the create call is made only
\* when all three fields are present.
C17_RejectedCreateMakesNoCall ==
    [][ AnswerStep("create") =>
          /\ resp' \in {NameError, CategoryError, PriceError} =>
                (calls' = 0 /\ store' = store /\ nextId' = nextId)
          /\ calls' > 0 =>
                (Truthy(req'.name) /\ Truthy(req'.category)
                    /\ Truthy(req'.price))
      ]_vars

\* C17 witness: with a record in the store, a Create that has a name and
\* no category has been rejected without a store call.
C17_Witness ==
    /\ Answered("create") /\ resp = CategoryError /\ calls = 0
    /\ Truthy(req.name) /\ Truthy(req.price)
    /\ store # <<>>

\* C18: no operation retries a store call.  Within one request Get-by-id,
\* Create, Update and Delete make at most one store call and List makes
\* at most one findMany and one count; a request whose store call failed
\* is answered in the same step, without another store call.
C18_NoRetry ==
    /\ [](req.op \in {"get", "create", "update", "delete"} => calls <= 1)
    /\ [](req.op = "list" => (calls <= 2 /\ (pc = "count" => calls = 1)))
    /\ [][ /\ (FindManyStep /\ ~find_many(store, ListParams(req').skip,
                                           ListParams(req').pageSizeNumber,
                                           storeUp').ok) =>
                 (pc' = "done" /\ calls' = 1 /\ resp' = ListFailure)
           /\ (pc = "count" /\ calls' # calls) =>
                 (pc' = "done" /\ calls' = 2 /\ resp' # NoResponse)
           /\ (pc' = "done" /\ req'.op # "list" /\ ~storeUp') => calls' <= 1
       ]_vars

\* C18 witness: a List whose findMany failed has been answered with the
\* failure after that one store call.
C18_Witness ==
    /\ Answered("list") /\ calls = 1 /\ ~storeUp
    /\ resp = ListFailure

----------------------------------------------------------------------------
(* Completion *)

\* C19: a request that entered a handler is answered, and answered once.
\* A request that is finished has a response; a List that waits for count
\* has sent none yet; a response is written only by the step that
\* finishes a request, and the step after a finished request starts
\* another request (it is not a second answer of count); and, the store
\* calls returning or failing, a waiting List is eventually finished.
C19_AnsweredExactlyOnce ==
    /\ [](pc = "done" => resp.sent \in {"json", "end"})
    /\ [](pc = "count" => resp = NoResponse)
    /\ [][ /\ resp' # NoResponse => pc' = "done"
           /\ pc = "done" => calls' <= 1
       ]_vars
    /\ (pc = "count" ~> pc = "done")

\* C19 witness: a List that waited for count while another request wrote
\* to the store has been answered with an envelope.
C19_Witness ==
    /\ Answered("list") /\ calls = 2 /\ raced
    /\ resp.status = 200

----------------------------------------------------------------------------
(* Interleaving *)

\* The number of results that one snapshot of the store gives the answered
\* List request: min(page_size, max(0, count - skip)).
SnapshotLength ==
    Min(ListParams(req).pageSizeNumber.v,
        Max(0, resp.body.count.v - ListParams(req).skip.v))

\* C20: when no request wrote to the store between the findMany and the
\* count of a List, the envelope describes one snapshot:
\* results.length = min(page_size, max(0, count - skip)).
C20_UnracedResultsLength ==
    (Answered("list") /\ resp.status = 200 /\ ~raced) =>
        Len(resp.body.results) = SnapshotLength

\* C20, the interleaved case: a Delete completed between the findMany and
\* the count of a List, and the envelope holds a record while its count
\* and total_pages are 0.
C20_StaleResults ==
    /\ Answered("list") /\ resp.status = 200 /\ raced
    /\ Len(resp.body.results) > resp.body.count.v
    /\ resp.body.count = Fin(0) /\ resp.body.total_pages = Fin(0)
    /\ resp.body.results # <<>>

\* For every page_size that is not negative the envelope of a List that
\* no write interleaved describes one snapshot.
UnracedResultsLengthFromZero ==
    (/\ Answered("list") /\ resp.status = 200 /\ ~raced
     /\ ListParams(req).pageSizeNumber.v >= 0) =>
        Len(resp.body.results) = SnapshotLength

----------------------------------------------------------------------------
(* The route /ronier *)

\* C21: GET /ronier is registered after GET /:id, so the router hands a
\* GET for /api/products/ronier to the Get-by-id handler with the id text
\* "ronier"; that handler answers it and ends the request, no request is
\* handed to the handler of /ronier, and its list is never the response.
C21_RonierIsGetById ==
    /\ RouterDispatch("GET", <<Ronier>>) = "get"
    /\ \A e \in Entries : RoutedBy(e, "ronier") = {}
    /\ handler # "ronier"
    /\ (pc # "idle" /\ HttpMethod(req) = "GET" /\ HttpPath(req) = <<Ronier>>) =>
          /\ handler = "get" /\ pc = "done"
          /\ resp = GetHandler(store, req, storeUp)
          /\ IsError(resp)

\* C21 witness: with a record in the store, a GET for /api/products/ronier
\* has been answered by Get-by-id, whose store call refused the id.
C21_Witness ==
    /\ Answered("get") /\ req.id = Ronier /\ handler = "get"
    /\ storeUp /\ store # <<>>
    /\ resp = Error(500, "Erro ao buscar o produto")

----------------------------------------------------------------------------
(* Create's presence check *)

\* The value is supplied and falsy: the number 0 or the empty string.
Falsy(val) == val = Num(Fin(0)) \/ val = Str(<<>>)

\* C22: Create's presence check is a truthiness test.  A body whose name,
\* category or price is the number 0 or the empty string is answered 400
\* with the missing-field message of the first such field, without a
\* store call and with the store unchanged; a body with a name, a
\* category and the price 0 gets the price message; and the store is
\* called only for bodies whose three values are all truthy.
C22_FalsyFieldIsMissing ==
    [][ AnswerStep("create") =>
          /\ (Falsy(req'.name) \/ Falsy(req'.category) \/ Falsy(req'.price)) =>
                /\ resp' \in {NameError, CategoryError, PriceError}
                /\ calls' = 0 /\ store' = store /\ nextId' = nextId
          /\ (/\ req'.name = Str(Pizza) /\ req'.category = Str(Food)
              /\ Falsy(req'.price)) => resp' = PriceError
          /\ (calls' > 0 \/ store' # store) =>
                /\ ~Falsy(req'.name) /\ Supplied(req'.name)
                /\ ~Falsy(req'.category) /\ Supplied(req'.category)
                /\ ~Falsy(req'.price) /\ Supplied(req'.price)
      ]_vars

\* C22 witness: a Create with a name, a category and the price 0 (a
\* number) has been rejected for its price, and nothing was stored.
C22_Witness ==
    /\ Answered("create") /\ req.price = Num(Fin(0))
    /\ req.name = Str(Pizza) /\ req.category = Str(Food)
    /\ resp = PriceError /\ calls = 0

====
